---- MODULE Spec2Model ----
(***************************************************************************)
(* SoupaWhisper (src/dictate.py): push-to-talk dictation.                  *)
(*                                                                         *)
(* The model holds the Dictation object's fields, the resolved             *)
(* configuration, the loader threads started by _get_or_load_model, the    *)
(* position of the pynput listener thread inside its callbacks, and the    *)
(* outside world the program acts on: temp files, the capture process and  *)
(* the log of external invocations.                                        *)
(*                                                                         *)
(* Strings whose content matters are sequences: a model name is a sequence *)
(* of tokens (<<"base", ".en">> is "base.en"), a message or transcript is  *)
(* a sequence of character codes.                                          *)
(***************************************************************************)
EXTENDS Integers, Sequences, FiniteSets, TLC

\* ------------------------------------------------------------------ bounds

\* Temp file names the file system can hand out (tempfile draws fresh names).
MaxFiles == 2

\* Threads calling _get_or_load_model concurrently in SpecAcquire.
NCallers == 2

\* ------------------------------------------------------- python values

PyNone == [tag |-> "None", val |-> <<>>]

PyStr(s) == [tag |-> "str", val |-> s]

\* Python truthiness of an Optional[str]: None and "" are both false.
Truthy(v) == v.tag = "str" /\ Len(v.val) > 0

\* A string of n characters; character i has code i.
Str(n) == [i \in 1..n |-> i]

\* s[:n]
Take(s, n) == SubSeq(s, 1, IF Len(s) < n THEN Len(s) ELSE n)

SP == 0

DOT == -1

\* segment.text.strip()
RECURSIVE LStrip(_)
LStrip(s) == IF s # <<>> /\ Head(s) = SP THEN LStrip(Tail(s)) ELSE s

RECURSIVE RStrip(_)
RStrip(s) ==
    IF s # <<>> /\ s[Len(s)] = SP THEN RStrip(SubSeq(s, 1, Len(s) - 1)) ELSE s

Strip(s) == RStrip(LStrip(s))

\* " ".join(segment.text.strip() for segment in segments)
RECURSIVE JoinSegments(_)
JoinSegments(segs) ==
    IF segs = <<>> THEN <<>>
    ELSE IF Len(segs) = 1 THEN Strip(segs[1])
    ELSE Strip(segs[1]) \o <<SP>> \o JoinSegments(Tail(segs))

\* text[:100] + ("..." if len(text) > 100 else "")
PreviewLen == 100

Preview(text) ==
    Take(text, PreviewLen) \o (IF Len(text) > PreviewLen THEN <<DOT, DOT, DOT>> ELSE <<>>)

\* str(e)[:50]
ErrorLen == 50

ErrorText(msg) == Take(msg, ErrorLen)

\* ------------------------------------------------------- configuration

EN == ".en"

\* model_name.endswith(".en")
EndsWithEn(m) == Len(m) > 0 /\ m[Len(m)] = EN

DefaultModelSize == <<"base">>

DefaultKey == "f12"

\* config.get(section, option, fallback=...): an option is <<>> when the file
\* does not set it and <<value>> when it does.
Get(opt, fallback) == IF opt = <<>> THEN fallback ELSE opt[1]

\* Every binding given the configured model name as it is.
DeriveModelPlain(lang, model_size) == model_size

\* The model identifier of one language binding.
DeriveModel(lang, model_size) ==
    IF lang = "en" THEN Append(model_size, EN) ELSE model_size

\* The languages dict built by load_config, as a sequence of bindings in
\* insertion order.
Languages(file) ==
    LET model_size == Get(file.model_size, DefaultModelSize) IN
    IF file.has_languages
        THEN [i \in 1..Len(file.languages) |->
                [lang  |-> file.languages[i].lang,
                 key   |-> file.languages[i].hotkey,
                 model |-> DeriveModel(file.languages[i].lang, model_size)]]
        ELSE << [lang  |-> "auto",
                 key   |-> Get(file.hotkey, DefaultKey),
                 model |-> model_size] >>

load_config(file) ==
    [model_size    |-> Get(file.model_size, DefaultModelSize),
     languages     |-> Languages(file),
     auto_type     |-> Get(file.auto_type, TRUE),
     notifications |-> Get(file.notifications, TRUE)]

\* Attributes of pynput's keyboard.Key that the model's keyboards have.
KeyNames == {"f9", "f10", "f12"}

\* Names of one character.
CharNames == {"a"}

get_hotkey(key_name) ==
    IF key_name \in KeyNames THEN key_name
    ELSE IF key_name \in CharNames THEN key_name
    ELSE "f12"

\* HOTKEY_TO_LANG: filled binding by binding, a later binding of the same key
\* replacing an earlier one.
RECURSIVE HotkeyMap(_, _)
HotkeyMap(langs, n) ==
    IF n = 0 THEN << >>
    ELSE LET prev == HotkeyMap(langs, n - 1)
             k    == get_hotkey(langs[n].key)
             v    == [lang |-> langs[n].lang, model |-> langs[n].model]
         IN  (k :> v) @@ prev

BuildHotkeyToLang(config) == HotkeyMap(config.languages, Len(config.languages))

\* The configuration files the model starts from.
LanguageSections ==
    { <<>>,
      << [lang |-> "en", hotkey |-> "f9"], [lang |-> "de", hotkey |-> "f10"] >> }

ConfigFiles ==
    { [model_size |-> ms, has_languages |-> ls # <<>>, languages |-> ls,
       hotkey |-> <<>>, auto_type |-> at, notifications |-> nf] :
        ms \in { <<>>, << <<"base", EN>> >> },
        ls \in LanguageSections,
        at \in { <<>>, <<FALSE>> },
        nf \in { <<>>, <<FALSE>> } }

\* The configuration files load_config is applied to on its own: more
\* model names, languages and keys than the sessions are run with.
WideLanguageSections ==
    { <<>>,
      << [lang |-> "en", hotkey |-> "f9"] >>,
      << [lang |-> "fr", hotkey |-> "f9"] >>,
      << [lang |-> "auto", hotkey |-> "f12"] >>,
      << [lang |-> "en", hotkey |-> "f9"], [lang |-> "de", hotkey |-> "f10"] >>,
      << [lang |-> "fr", hotkey |-> "f9"], [lang |-> "en", hotkey |-> "f10"] >>,
      << [lang |-> "de", hotkey |-> "f9"], [lang |-> "auto", hotkey |-> "f9"] >>,
      << [lang |-> "en", hotkey |-> "a"], [lang |-> "fr", hotkey |-> "ctrl+x"] >> }

\* A file with a languages section (which may be empty), or without one.
WideConfigFiles ==
    { f \in [model_size    : { <<>>, << <<"base">> >>, << <<"small">> >>,
                               << <<"base", EN>> >> },
             has_languages : BOOLEAN,
             languages     : WideLanguageSections,
             hotkey        : { <<>>, <<"f9">> },
             auto_type     : { <<>> },
             notifications : { <<>> }] :
        f.has_languages \/ f.languages = <<>> }

\* Keys the keyboard can deliver.
Keys == {"f9", "f10", "f12"}

\* Every model identifier a binding of some configuration file names.
ModelNames ==
    UNION { { load_config(f).languages[i].model :
                i \in 1..Len(load_config(f).languages) } : f \in ConfigFiles }

\* ---------------------------------------------------------------- state

VARIABLES
    config_file,        \* the configuration file at CONFIG_PATH
    installed,          \* the commands found on the PATH
    main_pc,            \* position of the main thread
    exit_status,        \* NoExit or <<the status the process exited with>>
    CONFIG,             \* module global: what load_config returned
    HOTKEY_TO_LANG,     \* module global: key -> [lang, model]
    AUTO_TYPE,          \* module global
    NOTIFICATIONS,      \* module global
    recording,          \* Dictation.recording
    record_process,     \* Dictation.record_process: "None" or "Popen"
    temp_file,          \* Dictation.temp_file: NoFile or the file's name
    active_language,    \* Dictation.active_language: NoLang or a language
    active_model_name,  \* Dictation.active_model_name: NoModel or a model name
    models,             \* Dictation.models: model name -> cache entry
    models_lock,        \* Dictation.models_lock: NoThread or the holder
    loader,             \* model name -> position of its latest _load_model thread
    created,            \* model name -> number of cache entries ever created
    started,            \* model name -> number of _load_model threads ever started
    pc,                 \* position of the listener thread
    event,              \* the event the listener thread handles or handled last
    files,              \* temp files that exist
    captures,           \* number of running arecord processes
    calls,              \* external invocations of the current (last) session
    caller              \* SpecAcquire: thread -> its call of _get_or_load_model

\* The main thread and the module globals: no handler writes them.
config_vars ==
    <<config_file, installed, main_pc, exit_status, CONFIG, HOTKEY_TO_LANG,
      AUTO_TYPE, NOTIFICATIONS>>

session_vars ==
    <<recording, record_process, temp_file, active_language, active_model_name>>

cache_vars == <<models, loader, created, started>>

world_vars == <<files, captures, calls>>

vars ==
    <<config_file, installed, main_pc, exit_status, CONFIG,
      HOTKEY_TO_LANG, AUTO_TYPE, NOTIFICATIONS, recording, record_process,
      temp_file, active_language, active_model_name, models, models_lock,
      loader, created, started, pc, event, files, captures, calls, caller>>

NoFile == 0

NoLang == "None"

NoModel == <<>>

NoThread == 0

FileNames == 1..MaxFiles

Callers == 1..NCallers

NoEvent == [type |-> "none", key |-> "none", seq |-> 0]

\* The event delivered after the event last: the listener thread handles one
\* event at a time, and two deliveries of the same key are two events.
Deliver(type, key) == [type |-> type, key |-> key, seq |-> 1 - event.seq]

IdleCaller == [pc |-> "idle", arg |-> NoModel, ret |-> 0]

\* A name not bound yet: a module global before the import, a field of the
\* controller before its construction.
Undefined == "undefined"

\* exit_status: << >> while the process runs, <<status>> once it has exited.
NoExit == << >>

\* The commands check_dependencies and the sessions look for, and which.
Tools == {"which", "arecord", "xclip", "xdotool"}

\* The module globals of lines 73-97, built from the configuration file:
\* the state ImportModule leaves.
Imported ==
    /\ CONFIG = load_config(config_file)
    /\ HOTKEY_TO_LANG = BuildHotkeyToLang(load_config(config_file))
    /\ AUTO_TYPE = load_config(config_file).auto_type
    /\ NOTIFICATIONS = load_config(config_file).notifications

\* Dictation.__init__ (lines 101-107): the state Construct leaves.
Constructed ==
    /\ recording = FALSE
    /\ record_process = "None"
    /\ temp_file = NoFile
    /\ active_language = NoLang
    /\ active_model_name = NoModel
    /\ models = << >>
    /\ models_lock = NoThread

\* What the program has not touched at its start.
Untouched ==
    /\ loader = << >>
    /\ created = [m \in ModelNames |-> 0]
    /\ started = [m \in ModelNames |-> 0]
    /\ event = NoEvent
    /\ files = {}
    /\ captures = 0
    /\ calls = << >>
    /\ caller = [c \in Callers |-> IdleCaller]

\* The listener thread waiting for events: the program after its start with
\* every command installed (module import, check_dependencies passed,
\* Dictation.__init__, run).
Init ==
    /\ config_file \in ConfigFiles
    /\ installed = Tools
    /\ main_pc = "run"
    /\ exit_status = NoExit
    /\ Imported
    /\ Constructed
    /\ Untouched
    /\ pc = "idle"

\* The process at its start, before the module is imported.
Boot(files_, toolsets) ==
    /\ config_file \in files_
    /\ installed \in toolsets
    /\ main_pc = "import"
    /\ exit_status = NoExit
    /\ CONFIG = Undefined
    /\ HOTKEY_TO_LANG = Undefined
    /\ AUTO_TYPE = Undefined
    /\ NOTIFICATIONS = Undefined
    /\ recording = Undefined
    /\ record_process = Undefined
    /\ temp_file = Undefined
    /\ active_language = Undefined
    /\ active_model_name = Undefined
    /\ models = Undefined
    /\ models_lock = Undefined
    /\ Untouched
    /\ pc = "off"

InitStartup == Boot(ConfigFiles, SUBSET Tools)

InitConfig == Boot(WideConfigFiles, {Tools})

\* ---------------------------------------------------------------- startup

handler_vars == <<pc, event, loader, created, started, files, captures, calls, caller>>

\* The import of the module (lines 73-97): load_config and the globals.
ImportModule ==
    /\ main_pc = "import"
    /\ main_pc' = "main"
    /\ CONFIG' = load_config(config_file)
    /\ HOTKEY_TO_LANG' = BuildHotkeyToLang(load_config(config_file))
    /\ AUTO_TYPE' = load_config(config_file).auto_type
    /\ NOTIFICATIONS' = load_config(config_file).notifications
    /\ UNCHANGED <<config_file, installed, exit_status, session_vars, models,
                   models_lock, handler_vars>>

\* The capture tool alone looked for.
MissingCaptureOnly(inst, auto_type) == {"arecord"} \ inst

\* The commands check_dependencies finds missing (lines 297-306).
Missing(inst, auto_type) ==
    ({"arecord", "xclip"} \ inst)
        \cup (IF auto_type THEN {"xdotool"} \ inst ELSE {})

\* main up to check_dependencies (lines 316-329), run without arguments:
\* sys.exit(1) when a command is missing; without which, subprocess.run
\* raises and the interpreter ends with status 1 as well.
check_dependencies ==
    /\ main_pc = "main"
    /\ IF "which" \notin installed \/ Missing(installed, AUTO_TYPE) # {}
          THEN main_pc' = "exited" /\ exit_status' = <<1>>
          ELSE main_pc' = "checked" /\ UNCHANGED exit_status
    /\ UNCHANGED <<config_file, installed, CONFIG, HOTKEY_TO_LANG, AUTO_TYPE,
                   NOTIFICATIONS, session_vars, models, models_lock, handler_vars>>

\* main, line 331: dictation = Dictation().
Construct ==
    /\ main_pc = "checked"
    /\ main_pc' = "constructed"
    /\ recording' = FALSE
    /\ record_process' = "None"
    /\ temp_file' = NoFile
    /\ active_language' = NoLang
    /\ active_model_name' = NoModel
    /\ models' = << >>
    /\ models_lock' = NoThread
    /\ UNCHANGED <<config_file, installed, exit_status, CONFIG, HOTKEY_TO_LANG,
                   AUTO_TYPE, NOTIFICATIONS, handler_vars>>

\* main, line 339: dictation.run() starts the listener thread and joins it.
run ==
    /\ main_pc = "constructed"
    /\ main_pc' = "run"
    /\ pc' = "idle"
    /\ UNCHANGED <<config_file, installed, exit_status, CONFIG, HOTKEY_TO_LANG,
                   AUTO_TYPE, NOTIFICATIONS, session_vars, cache_vars, models_lock,
                   event, files, captures, calls, caller>>
\* ----------------------------------------------------------- model cache

\* The entry _get_or_load_model stores for a model it does not know.
NewEntry(n) == [id |-> n, model |-> "None", loaded |-> FALSE, error |-> PyNone]

\* model_name not in self.models
NotCached(ms, m) == m \notin DOMAIN ms

\* The dict after self.models[model_name] = {...}.
Store(ms, m, e) == (m :> e) @@ ms

\* The messages a failed engine construction can carry (str(e)); the empty
\* one is an exception raised without arguments.
LoadErrors == { Str(0), Str(4) }

\* _get_or_load_model run by the listener thread, the only thread of the
\* program that calls it: the lock is free and the with block runs whole.
GetOrLoadModel(m) ==
    IF NotCached(models, m)
        THEN /\ models' = Store(models, m, NewEntry(created[m] + 1))
             /\ created' = [created EXCEPT ![m] = @ + 1]
             /\ started' = [started EXCEPT ![m] = @ + 1]
             /\ loader' = (m :> "start") @@ loader
        ELSE UNCHANGED cache_vars

\* _load_model, lines 143-152: the engine is built or the error is kept.
LoadModelConstruct(m) ==
    /\ m \in DOMAIN loader
    /\ loader[m] = "start"
    /\ \/ models' = [models EXCEPT ![m].model = "WhisperModel"]
       \/ \E msg \in LoadErrors : models' = [models EXCEPT ![m].error = PyStr(msg)]
    /\ loader' = [loader EXCEPT ![m] = "finally"]
    /\ UNCHANGED <<config_vars, session_vars, world_vars, models_lock, created,
                   started, pc, event, caller>>

\* The readiness event set only after a successful construction.
SetOnSuccess(entry) == entry.loaded \/ entry.error = PyNone

\* loaded.set() in the finally clause: set whatever the outcome.
SetAlways(entry) == TRUE

\* _load_model, lines 153-154: finally, the readiness event is set.
LoadModelFinally(m) ==
    /\ m \in DOMAIN loader
    /\ loader[m] = "finally"
    /\ models' = [models EXCEPT ![m].loaded = SetAlways(models[m])]
    /\ loader' = [loader EXCEPT ![m] = "done"]
    /\ UNCHANGED <<config_vars, session_vars, world_vars, models_lock, created,
                   started, pc, event, caller>>

\* ------------------------------------------------- external invocations

\* One entry of the log: the command, its arguments and how it ended:
\* "ok", "nonzero" (the process ran and exited with a failure status) or
\* "raise" (the call raised: the process could not be spawned, the engine
\* threw). For transcribe, text is the transcript the call returned.
Call(cmd) ==
    [cmd |-> cmd, title |-> "", note |-> "", text |-> << >>, file |-> NoFile,
     lang |-> NoLang, result |-> "ok"]

SpawnResults == {"ok", "raise"}

ProcessResults == {"ok", "nonzero", "raise"}

\* "auto-detect" if language == "auto" else language.upper()
Upper(l) == CASE l = "en" -> "EN" [] l = "de" -> "DE" [] OTHER -> l

LangDisplay(l) == IF l = "auto" THEN "auto-detect" ELSE Upper(l)

\* notify(): nothing at all when notifications are disabled, else one
\* notify-send run (subprocess.run without check: only a failed spawn raises).
notify(title, note, text, lang, result) ==
    IF ~NOTIFICATIONS THEN << >>
    ELSE << [Call("notify-send") EXCEPT !.title = title, !.note = note,
                !.text = text, !.lang = lang, !.result = result] >>

NotifyRaises(result) == NOTIFICATIONS /\ result = "raise"

\* print(): one console line.
console(title, text, lang) ==
    [Call("print") EXCEPT !.title = title, !.text = text, !.lang = lang]

\* str(e) of a failed spawn ("[Errno 2] No such file or directory: 'xclip'").
SpawnError == Str(44)

\* str(e) of calling .transcribe on None
\* ("'NoneType' object has no attribute 'transcribe'").
NoneTypeError == Str(47)

\* What the engine can answer: segments (an empty list, one blank segment,
\* two padded segments, one segment longer than the preview), or an
\* exception with a message of 50 or 51 characters.
Transcripts ==
    { << >>,
      << <<SP>> >>,
      << <<SP, 1, 2, SP>>, <<3, SP>> >>,
      << Str(PreviewLen + 1) >> }

EngineErrors == { Str(ErrorLen), Str(ErrorLen + 1) }

EngineResults ==
    { [kind |-> "ok", segments |-> t, msg |-> << >>] : t \in Transcripts }
    \cup { [kind |-> "raise", segments |-> << >>, msg |-> e] : e \in EngineErrors }

\* The hint passed whatever the model.
LanguageHintAnyModel(lang, model_name) ==
    IF lang # NoLang /\ lang # "auto" THEN lang ELSE NoLang

\* The language keyword of the transcribe call (lines 236-238), NoLang when
\* the keyword is not passed.
LanguageHint(lang, model_name) ==
    IF lang # NoLang /\ lang # "auto"
        THEN IF ~EndsWithEn(model_name) THEN lang ELSE NoLang
        ELSE NoLang

\* --------------------------------------------------------- the listener

\* The listener thread waiting for the model in start_recording as well.
WaitPointsBoth == {"start_recording", "stop_recording_wait"}

\* Program points at which the listener thread calls model_info["loaded"].wait().
WaitPoints == {"stop_recording_wait"}

\* Whether the listener thread, at p and there holding the entry of model m,
\* can take its next step.
CanProceed(p, m) == p \in WaitPoints => models[m].loaded

\* start_recording without its gate.
StartGateOpen == TRUE

\* if self.recording: return
StartGate == ~recording

\* if not self.recording: return
StopGate == recording

\* key in HOTKEY_TO_LANG and self.recording
ReleaseGate(key) == key \in DOMAIN HOTKEY_TO_LANG /\ recording

\* The model of a bound key acquired whether or not a session is recording.
AcquiresUngated(key) == key \in DOMAIN HOTKEY_TO_LANG

\* Whether a press reaches the call of _get_or_load_model (line 178): the key
\* is bound (line 275) and the gate of start_recording (line 174) is open.
Acquires(key) == key \in DOMAIN HOTKEY_TO_LANG /\ StartGate

\* on_press and start_recording up to the call of _get_or_load_model
\* (lines 273-278). A press is delivered only while the file system has a
\* fresh name left.
on_press(key) ==
    /\ pc = "idle"
    /\ \E f \in FileNames : f \notin files
    /\ event' = Deliver("press", key)
    /\ IF Acquires(key)
          THEN GetOrLoadModel(HOTKEY_TO_LANG[key].model)
          ELSE UNCHANGED cache_vars
    /\ pc' = IF key \in DOMAIN HOTKEY_TO_LANG /\ StartGate
                THEN "start_recording" ELSE pc
    /\ UNCHANGED <<config_vars, session_vars, world_vars, models_lock, caller>>

\* The name tempfile.NamedTemporaryFile hands out: one no file has.
FreshFile == CHOOSE f \in FileNames : f \notin files

\* start_recording, lines 180-202.
start_recording ==
    /\ pc = "start_recording"
    /\ LET config == HOTKEY_TO_LANG[event.key] IN
       /\ CanProceed(pc, config.model)
       /\ recording' = TRUE
       /\ active_language' = config.lang
       /\ active_model_name' = config.model
       /\ temp_file' = FreshFile
       /\ files' = files \cup {FreshFile}
       /\ \E spawn \in SpawnResults, shown \in SpawnResults :
             LET arecord == [Call("arecord") EXCEPT !.file = FreshFile,
                                                     !.result = spawn]
                 note    == notify("Recording", "Release", << >>,
                                   LangDisplay(config.lang), shown)
             IN  IF spawn = "raise"
                    THEN /\ calls' = <<arecord>>
                         /\ UNCHANGED <<record_process, captures>>
                         /\ pc' = "escaped"
                    ELSE /\ calls' = <<arecord,
                                        console("Recording", << >>,
                                                LangDisplay(config.lang))>> \o note
                         /\ record_process' = "Popen"
                         /\ captures' = captures + 1
                         /\ pc' = IF NotifyRaises(shown) THEN "escaped" ELSE "idle"
    /\ UNCHANGED <<config_vars, cache_vars, models_lock, event, caller>>

\* The capture processes left running by a stop_recording that finds
\* nothing to terminate.
AfterTerminateLeak(process, running) == running

\* The capture processes left running after lines 210-213: terminate() and
\* wait() end the one self.record_process names.
AfterTerminate(process, running) ==
    IF process # "None" THEN running - 1 ELSE running

\* on_release and stop_recording up to the wait for the model
\* (lines 278-280, 204-222).
on_release(key) ==
    /\ pc = "idle"
    /\ event' = Deliver("release", key)
    /\ IF ReleaseGate(key) /\ StopGate
          THEN /\ recording' = FALSE
               /\ record_process' = "None"
               /\ captures' = AfterTerminate(record_process, captures)
               /\ \E shown \in SpawnResults :
                     /\ calls' = calls
                            \o (IF record_process # "None"
                                   THEN << Call("terminate") >> ELSE << >>)
                            \o << console("Transcribing...", << >>, NoLang) >>
                            \o notify("Transcribing...", "Processing your speech",
                                      << >>, NoLang, shown)
                     /\ IF NotifyRaises(shown)
                           THEN /\ pc' = "escaped"
                                /\ UNCHANGED cache_vars
                           ELSE /\ GetOrLoadModel(active_model_name)
                                /\ pc' = "stop_recording_wait"
               /\ UNCHANGED <<temp_file, active_language, active_model_name, files>>
          ELSE UNCHANGED <<session_vars, cache_vars, world_vars, pc>>
    /\ UNCHANGED <<config_vars, models_lock, caller>>

\* Every transcript treated as speech.
HasSpeechAlways(text) == TRUE

\* if text: the transcript is not empty
HasSpeech(text) == text # << >>

\* if model_info["error"]: the entry counts as failed
LoadFailed(entry) == Truthy(entry.error)

\* The try block of stop_recording (lines 230-263) run on a loaded entry
\* whose error test was false: the invocations it makes and the message of
\* the exception that ends it (PyNone when none does). engine, xclip,
\* xdotool and shown are what the four collaborators answer when called.
\* On an entry without engine the transcribe call is made on None and
\* raises AttributeError before any engine runs.
TryBlock(entry, engine, xclip, xdotool, shown) ==
    LET hint == LanguageHint(active_language, active_model_name)
        text == JoinSegments(engine.segments)
        transcribe == [Call("transcribe") EXCEPT !.file = temp_file,
                          !.lang = hint, !.text = text, !.result = engine.kind]
        clip == [Call("xclip") EXCEPT !.text = text, !.result = xclip]
        type == [Call("xdotool") EXCEPT !.text = text, !.result = xdotool]
        copied == << console("Copied", text, NoLang) >>
                  \o notify("Copied!", "", Preview(text), NoLang, shown)
        silent == << console("No speech detected", << >>, NoLang) >>
                  \o notify("No speech detected", "Try speaking louder", << >>,
                            NoLang, shown)
        raised == IF NotifyRaises(shown) THEN PyStr(SpawnError) ELSE PyNone
        absent == [transcribe EXCEPT !.note = "AttributeError", !.result = "raise"]
    IN  IF entry.model = "None"
            THEN [calls |-> <<absent>>, exc |-> PyStr(NoneTypeError)]
        ELSE IF engine.kind = "raise"
            THEN [calls |-> <<transcribe>>, exc |-> PyStr(engine.msg)]
        ELSE IF ~HasSpeech(text)
            THEN [calls |-> <<transcribe>> \o silent, exc |-> raised]
        ELSE IF xclip = "raise"
            THEN [calls |-> <<transcribe, clip>>, exc |-> PyStr(SpawnError)]
        ELSE IF ~AUTO_TYPE
            THEN [calls |-> <<transcribe, clip>> \o copied, exc |-> raised]
        ELSE IF xdotool = "raise"
            THEN [calls |-> <<transcribe, clip, type>>, exc |-> PyStr(SpawnError)]
        ELSE [calls |-> <<transcribe, clip, type>> \o copied, exc |-> raised]

\* The except clause (lines 265-267): the invocations it makes for the
\* exception exc of the try block.
ExceptBlock(exc, shown) ==
    IF exc = PyNone THEN << >>
    ELSE << console("Error", exc.val, NoLang) >>
         \o notify("Error", "", ErrorText(exc.val), NoLang, shown)

\* The finally clause (lines 268-271): whether the temp file is unlinked.
Unlinks == temp_file # NoFile /\ temp_file \in files

FinallyBlock == IF Unlinks THEN << [Call("unlink") EXCEPT !.file = temp_file] >> ELSE << >>

\* The temp file unlinked before the recording is transcribed.
CleanupFirst(body, handler, cleanup) == cleanup \o body \o handler

\* try / except / finally (lines 230, 265, 268): the invocations of the body,
\* then of the handler, then of the cleanup.
TryExceptFinally(body, handler, cleanup) == body \o handler \o cleanup

\* stop_recording from the return of the wait to its end (lines 222-271).
stop_recording ==
    /\ pc = "stop_recording_wait"
    /\ CanProceed(pc, active_model_name)
    /\ LET entry == models[active_model_name] IN
       \E engine \in EngineResults, xclip \in ProcessResults,
          xdotool \in ProcessResults, shown \in SpawnResults, shown2 \in SpawnResults :
          IF LoadFailed(entry)
             THEN /\ calls' = calls
                            \o << console("Cannot transcribe: model failed to load",
                                          << >>, NoLang) >>
                            \o notify("Error", "Model failed to load",
                                      << >>, NoLang, shown2)
                  /\ pc' = IF NotifyRaises(shown2) THEN "escaped" ELSE "idle"
                  /\ UNCHANGED files
             ELSE LET try == TryBlock(entry, engine, xclip, xdotool, shown) IN
                  /\ calls' = calls \o TryExceptFinally(try.calls,
                                        ExceptBlock(try.exc, shown2), FinallyBlock)
                  /\ pc' = IF try.exc # PyNone /\ NotifyRaises(shown2)
                              THEN "escaped" ELSE "idle"
                  /\ files' = IF Unlinks THEN files \ {temp_file} ELSE files
    /\ UNCHANGED <<config_vars, session_vars, cache_vars, models_lock, event,
                   captures, caller>>

\* ------------------------------- _get_or_load_model under concurrent callers

\* The with block entered without regard to who holds the lock.
CanLockUnguarded(lock) == TRUE

\* with self.models_lock: a thread enters when no thread holds the lock.
CanLock(lock) == lock = NoThread

\* A thread calls _get_or_load_model(m).
AcquireCall(c, m) ==
    /\ caller[c].pc = "idle"
    /\ caller' = [caller EXCEPT ![c] = [pc |-> "lock", arg |-> m, ret |-> 0]]
    /\ UNCHANGED <<config_vars, session_vars, cache_vars, world_vars,
                   models_lock, pc, event>>

\* line 126: the lock is taken.
AcquireLock(c) ==
    /\ caller[c].pc = "lock"
    /\ CanLock(models_lock)
    /\ models_lock' = c
    /\ caller' = [caller EXCEPT ![c].pc = "check"]
    /\ UNCHANGED <<config_vars, session_vars, cache_vars, world_vars, pc, event>>

\* line 127: the membership test.
AcquireCheck(c) ==
    /\ caller[c].pc = "check"
    /\ caller' = [caller EXCEPT ![c].pc =
                     IF NotCached(models, caller[c].arg) THEN "store" ELSE "unlock"]
    /\ UNCHANGED <<config_vars, session_vars, cache_vars, world_vars,
                   models_lock, pc, event>>

\* lines 128-132: the entry is stored.
AcquireStore(c) ==
    /\ caller[c].pc = "store"
    /\ LET m == caller[c].arg IN
       /\ models' = Store(models, m, NewEntry(created[m] + 1))
       /\ created' = [created EXCEPT ![m] = @ + 1]
    /\ caller' = [caller EXCEPT ![c].pc = "spawn"]
    /\ UNCHANGED <<config_vars, session_vars, world_vars, models_lock, loader,
                   started, pc, event>>

\* lines 134-138: the loader thread is started.
AcquireSpawn(c) ==
    /\ caller[c].pc = "spawn"
    /\ LET m == caller[c].arg IN
       /\ started' = [started EXCEPT ![m] = @ + 1]
       /\ loader' = (m :> "start") @@ loader
    /\ caller' = [caller EXCEPT ![c].pc = "unlock"]
    /\ UNCHANGED <<config_vars, session_vars, world_vars, models_lock, models,
                   created, pc, event>>

\* The with block is left: the lock is released.
AcquireUnlock(c) ==
    /\ caller[c].pc = "unlock"
    /\ models_lock' = NoThread
    /\ caller' = [caller EXCEPT ![c].pc = "return"]
    /\ UNCHANGED <<config_vars, session_vars, cache_vars, world_vars, pc, event>>

\* line 139: return self.models[model_name]; the caller keeps the entry.
AcquireReturn(c) ==
    /\ caller[c].pc = "return"
    /\ caller' = [caller EXCEPT ![c].pc = "idle",
                                ![c].ret = models[caller[c].arg].id]
    /\ UNCHANGED <<config_vars, session_vars, cache_vars, world_vars,
                   models_lock, pc, event>>

\* The models the configuration binds.
BoundModels == { HOTKEY_TO_LANG[k].model : k \in DOMAIN HOTKEY_TO_LANG }

\* ------------------------------------------------------- specification

Next ==
    \/ \E key \in Keys : on_press(key)
    \/ start_recording
    \/ \E key \in Keys : on_release(key)
    \/ stop_recording
    \/ \E m \in ModelNames : LoadModelConstruct(m)
    \/ \E m \in ModelNames : LoadModelFinally(m)

Spec == Init /\ [][Next]_vars

\* The program from the start of the process.
NextStartup ==
    \/ ImportModule
    \/ check_dependencies
    \/ Construct
    \/ run
    \/ Next

SpecStartup == InitStartup /\ [][NextStartup]_vars

\* load_config and the module globals on their own.
SpecConfig == InitConfig /\ [][ImportModule]_vars

\* The program with its threads scheduled fairly: a loader thread that can
\* take its next step takes it, and so does the listener thread inside a
\* handler (every constructor and external call returns or raises).
Fairness ==
    /\ \A m \in ModelNames : WF_vars(LoadModelConstruct(m))
    /\ \A m \in ModelNames : WF_vars(LoadModelFinally(m))
    /\ WF_vars(start_recording)
    /\ WF_vars(stop_recording)

FairSpec == Init /\ [][Next]_vars /\ Fairness

\* _get_or_load_model called by several threads at once, line by line, with
\* the loader threads it starts.
NextAcquire ==
    \/ \E c \in Callers, m \in BoundModels : AcquireCall(c, m)
    \/ \E c \in Callers : AcquireLock(c)
    \/ \E c \in Callers : AcquireCheck(c)
    \/ \E c \in Callers : AcquireStore(c)
    \/ \E c \in Callers : AcquireSpawn(c)
    \/ \E c \in Callers : AcquireUnlock(c)
    \/ \E c \in Callers : AcquireReturn(c)
    \/ \E m \in ModelNames : LoadModelConstruct(m)
    \/ \E m \in ModelNames : LoadModelFinally(m)

SpecAcquire == Init /\ [][NextAcquire]_vars

\* ---------------------------------------------------------------- claims

\* The invocations a step adds to the log.
Added == SubSeq(calls', Len(calls) + 1, Len(calls'))

\* Whether the invocations cs hold one of the commands cmds.
Has(cs, cmds) == \E i \in 1..Len(cs) : cs[i].cmd \in cmds

\* An error event: the console line of a failure or the "Error" notification.
IsErrorEvent(c) ==
    \/ c.cmd = "print"
       /\ c.title \in {"Error", "Cannot transcribe: model failed to load"}
    \/ c.cmd = "notify-send" /\ c.title = "Error"

HasErrorEvent(cs) == \E i \in 1..Len(cs) : IsErrorEvent(cs[i])

\* C1, in every state: of each model at most one cache entry was ever
\* created and at most one loader thread ever started; a model in the cache
\* has exactly one entry; every call of _get_or_load_model that has returned
\* returned that entry, with its loader thread started.
C1_State ==
    /\ \A m \in ModelNames :
          /\ created[m] <= 1
          /\ started[m] <= 1
          /\ m \in DOMAIN models => created[m] = 1 /\ models[m].id = 1
    /\ \A c \in Callers :
          caller[c].ret # 0 =>
              /\ caller[c].arg \in DOMAIN models
              /\ caller[c].ret = models[caller[c].arg].id
              /\ created[caller[c].arg] = 1
              /\ started[caller[c].arg] = 1

\* C1: any number of calls of _get_or_load_model(M), from threads running
\* one after the other or at once, create exactly one cache entry for M and
\* start exactly one loader thread for M; every caller gets that entry, and
\* once its readiness event is set the entry never changes again, so every
\* caller observes the same terminal state.
C1_OneLoadPerModel ==
    [][ /\ C1_State'
        /\ \A m \in DOMAIN models :
              models[m].loaded => m \in DOMAIN models' /\ models'[m] = models[m]
      ]_vars

\* C1 witness: two threads have both returned from _get_or_load_model of the
\* same model, and the entry they hold has reached a terminal state (here a
\* failed load).
C1_Witness ==
    \E c1, c2 \in Callers :
        /\ c1 # c2
        /\ caller[c1].ret # 0 /\ caller[c2].ret # 0
        /\ caller[c1].arg = caller[c2].arg
        /\ models[caller[c1].arg].loaded
        /\ models[caller[c1].arg].error # PyNone

\* A session has been stopped and the handling of its hotkey-up has returned.
SessionFinished == pc = "idle" /\ ~recording /\ temp_file # NoFile

\* C2: when the handling of the hotkey-up that stops a session finishes, the
\* temp file of that session has been deleted, whatever the exit path of
\* stop_recording.
C2_TempFileDeleted == SessionFinished => temp_file \notin files

\* The step of stop_recording that follows the wait.
StopStep == pc = "stop_recording_wait" /\ pc' # pc

\* C3: transcription is attempted only once the entry of the active model
\* is loaded, and only with a successful load; stop_recording goes past its
\* wait only when the readiness event is set; and when the load failed,
\* whatever the message of its exception, an error event is emitted, no
\* transcription is attempted and neither the clipboard nor the keystroke
\* tool is called.
C3_TranscribeOnlyWhenReady ==
    [][ /\ Has(Added, {"transcribe"}) =>
              /\ pc = "stop_recording_wait"
              /\ models[active_model_name].loaded
              /\ models[active_model_name].model = "WhisperModel"
              /\ models[active_model_name].error = PyNone
        /\ StopStep => models[active_model_name].loaded
        /\ StopStep /\ models[active_model_name].error # PyNone =>
              /\ HasErrorEvent(Added)
              /\ ~Has(Added, {"transcribe", "xclip", "xdotool"})
      ]_vars

\* The key whose hotkey-down started the session: the key bound to the
\* active language.
ActiveKey == CHOOSE k \in DOMAIN HOTKEY_TO_LANG : HOTKEY_TO_LANG[k].lang = active_language

\* A step that handles a new event of the given type.
Handles(type) == event' # event /\ event'.type = type

\* C4: start_recording while a session is recording changes nothing (no
\* capture process, no temp file, active language and model as they were),
\* and a hotkey-up while idle changes nothing (no transcription, no
\* notification, no deletion).
C4_GatedNoOps ==
    [][ (Handles("press") /\ recording) \/ (Handles("release") /\ ~recording)
            => UNCHANGED <<session_vars, cache_vars, world_vars, pc>>
      ]_vars

\* C4 witness: while the key of one language is held and its session
\* records, the key of another language was pressed and ignored: the log
\* holds the one capture process of the session, and one temp file exists.
C4_Witness ==
    /\ recording
    /\ pc = "idle"
    /\ event.type = "press"
    /\ event.key \in DOMAIN HOTKEY_TO_LANG
    /\ HOTKEY_TO_LANG[event.key].lang # active_language
    /\ files = {temp_file}
    /\ Len(SelectSeq(calls, LAMBDA c : c.cmd = "arecord")) = 1

\* C5: at most one capture process runs, and it is the one of the session
\* that records.
C5_OneCapture ==
    /\ captures <= 1
    /\ captures = 1 <=> record_process = "Popen"
    /\ recording /\ pc = "idle" => captures = 1

\* C5 witness: sessions of two languages have been started (both models
\* are in the cache), the later one records, and one capture process runs.
C5_Witness ==
    /\ recording
    /\ pc = "idle"
    /\ captures = 1
    /\ Cardinality(DOMAIN models) = 2

\* C6: a session stops recording only on the hotkey-up of the active key.
C6_StopOnlyOnActiveKey ==
    [][ recording /\ ~recording' =>
            /\ Handles("release")
            /\ event'.key = ActiveKey
      ]_vars

\* The listener thread is inside a handler and cannot take its next step.
ListenerBlocked ==
    \/ pc = "start_recording" /\ ~ENABLED start_recording
    \/ pc = "stop_recording_wait" /\ ~ENABLED stop_recording

\* C7: the listener thread never waits while handling a hotkey-down; it
\* waits only in stop_recording, with the capture stopped.
C7_WaitOnlyWhenStopping ==
    ListenerBlocked =>
        /\ pc = "stop_recording_wait"
        /\ ~recording
        /\ record_process = "None"
        /\ captures = 0

\* C7 witness: the capture runs and the session records while the model of
\* its language is still loading.
C7_Witness ==
    /\ recording
    /\ captures = 1
    /\ pc = "idle"
    /\ ~models[active_model_name].loaded

\* A call of the engine, the clipboard tool or the keystroke tool failed.
DeliveryFailed(cs) ==
    \E i \in 1..Len(cs) :
        cs[i].cmd \in {"transcribe", "xclip", "xdotool"} /\ cs[i].result # "ok"

\* C8: when the engine or a delivery step fails in stop_recording, an error
\* event with the message cut to 50 characters is emitted, the failure stays
\* inside the controller, the temp file is deleted and the controller is
\* idle again.
C8_DeliveryFailureReported ==
    [][ StopStep /\ DeliveryFailed(Added) =>
            /\ \E i \in 1..Len(Added) :
                  /\ IsErrorEvent(Added[i])
                  /\ Len(Added[i].text) <= ErrorLen
            /\ pc' = "idle"
            /\ ~recording'
            /\ temp_file \notin files'
      ]_vars

\* C9: no failure of an external collaborator leaves on_press or on_release
\* as an exception, and the controller is never left recording without a
\* capture process.
C9_FailuresContained ==
    /\ pc # "escaped"
    /\ recording /\ pc \in {"idle", "escaped"} => record_process = "Popen"

\* C10: the transcribe call gets a language hint exactly when the active
\* language is not "auto" and the active model does not end in ".en", and
\* the hint is the active language.
C10_LanguageHint ==
    \A i \in 1..Len(calls) :
        calls[i].cmd = "transcribe" =>
            calls[i].lang =
                IF active_language # "auto"
                   /\ active_model_name[Len(active_model_name)] # ".en"
                THEN active_language ELSE NoLang

\* C10 witness: the engine was called for language "de" with a model ending
\* in ".en" and got no hint.
C10_Witness ==
    /\ active_language = "de"
    /\ active_model_name = <<"base", ".en">>
    /\ \E i \in 1..Len(calls) :
          calls[i].cmd = "transcribe" /\ calls[i].lang = NoLang

\* The transcribe call of a step that returned a transcript, as its place in
\* the invocations the step adds (0 when the step has none).
Transcribed ==
    IF \E i \in 1..Len(Added) : Added[i].cmd = "transcribe" /\ Added[i].result = "ok"
        THEN CHOOSE i \in 1..Len(Added) :
                Added[i].cmd = "transcribe" /\ Added[i].result = "ok"
        ELSE 0

\* The entries of cs that are calls of cmd with the text t.
Sent(cs, cmd, t) ==
    { i \in 1..Len(cs) : cs[i].cmd = cmd /\ cs[i].text = t }

\* The "copied" and the "no speech detected" event: the console line (the
\* notification follows it when notifications are enabled).
Copied(cs) == { i \in 1..Len(cs) : cs[i].cmd = "print" /\ cs[i].title = "Copied" }

NoSpeech(cs) ==
    { i \in 1..Len(cs) : cs[i].cmd = "print" /\ cs[i].title = "No speech detected" }

\* A call of cs raised.
Raised(cs, cmds) ==
    \E i \in 1..Len(cs) : cs[i].cmd \in cmds /\ cs[i].result = "raise"

\* C11 as claimed: after a successful transcription a non-empty transcript
\* is sent to the clipboard, typed exactly when auto-type is enabled, and
\* then the copied event is emitted; an empty transcript gives the no speech
\* event and no clipboard or keystroke call.
C11_DeliveryAsClaimed ==
    [][ Transcribed # 0 =>
          LET t == Added[Transcribed].text IN
          IF t # << >>
             THEN /\ Sent(Added, "xclip", t) # {}
                  /\ Sent(Added, "xdotool", t) # {} <=> AUTO_TYPE
                  /\ Copied(Added) # {}
                  /\ \A i \in Sent(Added, "xclip", t) \cup Sent(Added, "xdotool", t) :
                        \A j \in Copied(Added) : i < j
             ELSE /\ NoSpeech(Added) # {}
                  /\ ~Has(Added, {"xclip", "xdotool"})
      ]_vars

\* C11 as amended: the same, with a delivery call that raises ending the
\* delivery: the keystroke call is made exactly when auto-type is enabled
\* and the clipboard call did not raise, the copied event is emitted exactly
\* when no delivery call raised, and otherwise the error event is.
C11_Delivery ==
    [][ Transcribed # 0 =>
          LET t == Added[Transcribed].text IN
          IF t # << >>
             THEN /\ Sent(Added, "xclip", t) # {}
                  /\ Sent(Added, "xdotool", t) # {}
                        <=> AUTO_TYPE /\ ~Raised(Added, {"xclip"})
                  /\ Copied(Added) # {} <=> ~Raised(Added, {"xclip", "xdotool"})
                  /\ Raised(Added, {"xclip", "xdotool"}) => HasErrorEvent(Added)
                  /\ \A i \in Sent(Added, "xclip", t) \cup Sent(Added, "xdotool", t) :
                        /\ Transcribed < i
                        /\ \A j \in Copied(Added) : i < j
                  /\ \A i \in Sent(Added, "xclip", t) :
                        \A j \in Sent(Added, "xdotool", t) : i < j
                  /\ NoSpeech(Added) = {}
             ELSE /\ NoSpeech(Added) # {}
                  /\ Copied(Added) = {}
                  /\ ~Has(Added, {"xclip", "xdotool"})
      ]_vars

\* C11 witness: a session ended with a transcript longer than the preview
\* sent to the clipboard, typed, and reported as copied with the preview cut.
C11_Witness ==
    /\ pc = "idle"
    /\ AUTO_TYPE /\ NOTIFICATIONS
    /\ Sent(calls, "xclip", Str(PreviewLen + 1)) # {}
    /\ Sent(calls, "xdotool", Str(PreviewLen + 1)) # {}
    /\ Copied(calls) # {}
    /\ \E i \in 1..Len(calls) :
          /\ calls[i].cmd = "notify-send"
          /\ calls[i].title = "Copied!"
          /\ calls[i].text = Str(PreviewLen) \o <<DOT, DOT, DOT>>

\* The load of model m has failed: the constructor raised and the loader
\* thread has set the readiness event.
Failed(m) ==
    m \in DOMAIN models /\ models[m].loaded /\ models[m].error # PyNone

\* The model-load error event of stop_recording (lines 225-226).
HasModelLoadError(cs) ==
    \E i \in 1..Len(cs) :
        cs[i].cmd = "print" /\ cs[i].title = "Cannot transcribe: model failed to load"

\* C12: once the load of a model has failed its entry is never written
\* again, no further entry is created and no further loader thread started
\* for it, and every session that needs it ends with the model-load error
\* and without a transcription attempt.
C12_FailedIsFinal ==
    [][ \A m \in ModelNames : Failed(m) =>
          /\ models'[m] = models[m]
          /\ created'[m] = created[m]
          /\ started'[m] = started[m]
          /\ StopStep /\ active_model_name = m =>
                HasModelLoadError(Added) /\ ~Has(Added, {"transcribe"})
      ]_vars

\* A step in which a session starts: the capture process is spawned and the
\* controller becomes Recording (lines 180-198).
SessionStarts == ~recording /\ recording'

\* C13: when a session starts, the handling of the previous session's
\* hotkey-up has finished and the previous session's temp file is deleted,
\* whatever the outcome of the previous session.
C13_CleanupBeforeNextStart ==
    [][ SessionStarts =>
          /\ pc = "start_recording"
          /\ temp_file # NoFile => temp_file \notin files
      ]_vars

\* The place of a command in the order of a session (0: not ordered).
Rank(cmd) ==
    CASE cmd = "arecord" -> 1
      [] cmd = "terminate" -> 2
      [] cmd = "transcribe" -> 3
      [] cmd = "xclip" -> 4
      [] cmd = "xdotool" -> 5
      [] cmd = "unlink" -> 6
      [] OTHER -> 0

\* C14: in the invocations of a session the start of the capture comes
\* before its termination, the termination before the transcription, the
\* transcription before the clipboard call, the clipboard call before the
\* keystroke call, and all of them before the deletion of the temp file;
\* none happens twice, and none happens without the ones it depends on.
C14_SessionOrder ==
    /\ \A i, j \in 1..Len(calls) :
          i < j /\ Rank(calls[i].cmd) # 0 /\ Rank(calls[j].cmd) # 0
             => Rank(calls[i].cmd) < Rank(calls[j].cmd)
    /\ Has(calls, {"terminate"}) => Has(calls, {"arecord"})
    /\ Has(calls, {"transcribe"}) => Has(calls, {"terminate"})
    /\ Has(calls, {"xclip"}) => Has(calls, {"transcribe"})
    /\ Has(calls, {"xdotool"}) => Has(calls, {"xclip"})
    /\ Has(calls, {"unlink"}) => Has(calls, {"terminate"})

\* C14 witness: a session that ran every step, from the capture to the
\* deletion of its temp file.
C14_Witness ==
    /\ pc = "idle" /\ ~recording
    /\ \A cmd \in {"arecord", "terminate", "transcribe", "xclip", "xdotool", "unlink"} :
          Has(calls, {cmd})

\* C17, for the entries whose readiness event is set: such an entry never
\* changes again, and either it holds the engine and the error test of
\* stop_recording lets it through as loaded, or it holds no engine and the
\* error test of stop_recording takes it as failed.
C17_ReadyOrFailed ==
    [][ \A m \in DOMAIN models' :
          /\ m \in DOMAIN models /\ models[m].loaded => models'[m] = models[m]
          /\ models'[m].loaded =>
                \/ models'[m].model # "None" /\ ~LoadFailed(models'[m])
                \/ models'[m].model = "None" /\ LoadFailed(models'[m])
      ]_vars

\* C18: whenever the controller is idle, between two sessions as before the
\* first, no active language and no active model is set.
C18_ClearedWhenIdle ==
    pc = "idle" /\ ~recording =>
        active_language = NoLang /\ active_model_name = NoModel

\* C19: a press handled while a session is recording leaves the model cache
\* as it is (no entry created, no loader thread started), and an entry is
\* created or a loader thread started only by the press that starts a
\* session.
C19_IgnoredPressKeepsCache ==
    [][ /\ Handles("press") /\ recording => UNCHANGED cache_vars
        /\ DOMAIN models' # DOMAIN models \/ created' # created \/ started' # started
              => Handles("press") /\ ~recording /\ pc' = "start_recording"
      ]_vars

\* C19 witness: while a session is recording, the key of another language,
\* whose model is not in the cache, has been pressed and ignored.
C19_Witness ==
    /\ recording /\ pc = "idle"
    /\ event.type = "press"
    /\ event.key \in DOMAIN HOTKEY_TO_LANG
    /\ HOTKEY_TO_LANG[event.key].model # active_model_name
    /\ HOTKEY_TO_LANG[event.key].model \notin DOMAIN models

\* C20: with fair scheduling the readiness event of every entry is
\* eventually set, so stop_recording eventually leaves its wait, and after
\* the release that stops a session the handler eventually ends with the
\* controller not recording.
C20_EventuallyIdle ==
    /\ \A m \in ModelNames :
          (m \in DOMAIN models) ~> (m \in DOMAIN models /\ models[m].loaded)
    /\ (pc = "stop_recording_wait")
          ~> (pc \in {"idle", "escaped"} /\ ~recording)

\* C20 witness: stop_recording waiting for an entry whose loader thread has
\* kept the error of a failed construction and not yet set the event.
C20_Witness ==
    /\ pc = "stop_recording_wait"
    /\ ~models[active_model_name].loaded
    /\ models[active_model_name].error # PyNone
    /\ loader[active_model_name] = "finally"

\* The configured base model name of the configuration file, "base" when the
\* file names none.
BaseModel ==
    IF config_file.model_size = <<>> THEN <<"base">> ELSE config_file.model_size[1]

\* What the claim gives as the model of language lang with base model base.
Derived(lang, base) == IF lang = "en" THEN base \o <<".en">> ELSE base

\* C15: once the module is imported, every binding of CONFIG and of
\* HOTKEY_TO_LANG has the base model name with ".en" appended when its
\* language is "en" and the base model name itself otherwise, one binding
\* per language of the languages section; without a languages section the
\* only binding is language "auto" with the base model name.
C15_DeriveModel ==
    main_pc # "import" =>
        /\ IF config_file.has_languages
              THEN /\ Len(CONFIG.languages) = Len(config_file.languages)
                   /\ \A i \in 1..Len(CONFIG.languages) :
                         /\ CONFIG.languages[i].lang = config_file.languages[i].lang
                         /\ CONFIG.languages[i].model =
                               Derived(config_file.languages[i].lang, BaseModel)
              ELSE /\ Len(CONFIG.languages) = 1
                   /\ CONFIG.languages[1].lang = "auto"
                   /\ CONFIG.languages[1].model = BaseModel
                   /\ DOMAIN HOTKEY_TO_LANG # {}
        /\ \A k \in DOMAIN HOTKEY_TO_LANG :
              /\ HOTKEY_TO_LANG[k].model = Derived(HOTKEY_TO_LANG[k].lang, BaseModel)
              /\ config_file.has_languages \/ HOTKEY_TO_LANG[k].lang = "auto"

\* C15 witness: imported with the base model "small" and the languages fr
\* and en: fr is bound to small, en to small.en.
C15_Witness ==
    /\ main_pc = "main"
    /\ config_file.model_size = << <<"small">> >>
    /\ HOTKEY_TO_LANG = ("f9" :> [lang |-> "fr", model |-> <<"small">>])
                        @@ ("f10" :> [lang |-> "en", model |-> <<"small", ".en">>])

\* The commands the configuration makes necessary.
Required ==
    {"arecord", "xclip"}
        \cup (IF Get(config_file.auto_type, TRUE) THEN {"xdotool"} ELSE {})

\* C16: when a necessary command is missing (arecord, xclip, or xdotool with
\* auto-type enabled) the main thread goes from check_dependencies to the
\* exit with status 1 and never further: the controller is never constructed
\* and the listener thread never started; when they are all there (xdotool
\* may be missing with auto-type disabled) the process does not exit.
C16_MissingToolExits ==
    [][ IF ~(Required \subseteq installed)
           THEN /\ main_pc' \in {"main", "exited"}
                /\ main_pc = "main" => main_pc' = "exited"
                /\ main_pc' = "exited" => Len(exit_status') = 1 /\ exit_status'[1] # 0
                /\ pc' = "off"
                /\ captures' = 0 /\ calls' = << >>
           ELSE "which" \in installed => main_pc' # "exited" /\ exit_status' = NoExit
      ]_vars

\* C16 witness: the process has exited with status 1 with only xdotool
\* missing and auto-type enabled.
C16_Witness ==
    /\ main_pc = "exited"
    /\ exit_status = <<1>>
    /\ installed = Tools \ {"xdotool"}
    /\ AUTO_TYPE = TRUE

====
